---- MODULE Spec2Model ----
(***************************************************************************)
(* BrainDeck: the Leitner review engine (lib/leitner) and the useFlashCards *)
(* hook that applies it to the deck held in React state and localStorage.  *)
(*                                                                         *)
(* Time.  A JavaScript Date is an instant, a number of clock ticks since   *)
(* the epoch in UTC; a day has DayLen ticks.  The local time zone is a     *)
(* fixed offset tz: the local wall clock shows instant + tz.  setDate and  *)
(* setHours work on the local fields, toISOString prints the UTC fields.   *)
(***************************************************************************)
EXTENDS Integers, Sequences, FiniteSets

VARIABLES
    now,      \* the wall clock: what new Date() returns
    tz,       \* the local time zone offset, in ticks
    tracked,  \* the card whose lifecycle Spec follows: <<>> or <<card>>
    op,       \* the last operation applied to the tracked card
    cards,    \* useFlashCards: the cards state
    stored,   \* localStorage["braindeck-cards"]: <<>> or <<text>>
    nextId,   \* the next identifier crypto.randomUUID() hands out
    last,     \* the last call of a function of the hook
    fcall,    \* the last call of a function of lib/leitner: arguments, result
    hook,     \* useFlashCards: isLoading, isOffline, error, and how far the
              \* initialization started by the mount effect has come
    api,      \* flashcardApi: navigator.onLine and the two cache entries of
              \* localStorage
    rendered, \* useFlashCards: the cards of the last render, which the
              \* callbacks made by that render close over
    notif,    \* NotificationService, Notification.permission, the timers of
              \* the window and localStorage["braindeck-reminder"]
    home      \* Home: reviewedCardIds, sessionComplete and the dueCards of
              \* its last render

vars ==
    <<now, tz, tracked, op, cards, stored, nextId, last, fcall, hook, api,
      rendered, notif, home>>

(* ------------------------------ bounds --------------------------------- *)
DayLen == 3
MaxTicks == 3
MaxCards == 2
MaxIds == 2
MaxReviews == 6
MaxDeck == 4
MaxFetch == 2
MaxCalls == 3
MaxTimers == 2
MaxInvocations == 2

TZOffsets == {-1, 0, 1}
Questions == {"Q1", "Q2"}
Answers == {"A1"}
Confidences == {"forgot", "know"}
Levels == 0..5

Epoch == DayLen
Horizon == Epoch + MaxTicks
Instants == Epoch..Horizon

Null == <<>>

Min(a, b) == IF a <= b THEN a ELSE b

(* Definitions named X_Variant-style (setHours0_UTC, calculateNewLevel_Wrap, *)
(* ...) are faulty variants of the definition X that follows them; the     *)
(* properties at the end are shown to fail when X is replaced by one.      *)

(* ------------------------------ Date ----------------------------------- *)
\* Date.prototype.toISOString: the UTC calendar day and the UTC time of day.
toISOString(d) == <<d \div DayLen, d % DayLen>>

\* new Date(isoString): the instant the UTC fields name.
parseISO(s) == s[1] * DayLen + s[2]

setHours0_UTC(d) == d - (d % DayLen)
\* d.setHours(0, 0, 0, 0): the local time of day is cleared.
setHours0(d) == d - ((d + tz) % DayLen)

\* d.setDate(d.getDate() + n): n local calendar days later, same local time.
setDatePlus(d, n) == d + n * DayLen

(* ------------------------------ leitner -------------------------------- *)
LEITNER_INTERVALS_Linear == [l \in Levels |-> IF l = 0 THEN 0 ELSE 2 * l - 1]
LEITNER_INTERVALS ==
    [l \in Levels |->
        CASE l = 0 -> 0
          [] l = 1 -> 1
          [] l = 2 -> 3
          [] l = 3 -> 7
          [] l = 4 -> 14
          [] l = 5 -> 30]

calculateNextReviewDate_NoTruncate(level, fromDate) ==
    toISOString(setDatePlus(fromDate, LEITNER_INTERVALS[level]))
calculateNextReviewDate(level, fromDate) ==
    toISOString(setHours0(setDatePlus(fromDate, LEITNER_INTERVALS[level])))

calculateNewLevel_Wrap(currentLevel, confidence) ==
    IF confidence = "forgot" THEN 0 ELSE (currentLevel + 1) % 6
calculateNewLevel_Decrement(currentLevel, confidence) ==
    IF confidence = "forgot" THEN currentLevel - 1 ELSE Min(currentLevel + 1, 5)
calculateNewLevel(currentLevel, confidence) ==
    IF confidence = "forgot" THEN 0 ELSE Min(currentLevel + 1, 5)

\* reviewCard reads the clock twice: d1 is the default argument new Date() of
\* calculateNextReviewDate, d2 the later new Date() of lastReviewDate.
reviewCard_NewCreatedAt(card, confidence, d1, d2) ==
    LET newLevel == calculateNewLevel(card.level, confidence)
        nextReviewDate == calculateNextReviewDate(newLevel, d1)
    IN  [card |-> [card EXCEPT !.level = newLevel,
                               !.nextReviewDate = nextReviewDate,
                               !.lastReviewDate = toISOString(d2),
                               !.createdAt = toISOString(d2),
                               !.reviewCount = card.reviewCount + 1],
         previousLevel |-> card.level,
         newLevel |-> newLevel,
         nextReviewDate |-> nextReviewDate]
reviewCard_LevelPlusOne(card, confidence, d1, d2) ==
    LET newLevel == calculateNewLevel(card.level, confidence)
        nextReviewDate == calculateNextReviewDate(newLevel, d1)
    IN  [card |-> [card EXCEPT !.level = IF confidence = "forgot" THEN 0
                                        ELSE card.level + 1,
                               !.nextReviewDate = nextReviewDate,
                               !.lastReviewDate = toISOString(d2),
                               !.reviewCount = card.reviewCount + 1],
         previousLevel |-> card.level,
         newLevel |-> newLevel,
         nextReviewDate |-> nextReviewDate]
reviewCard_NoIncrement(card, confidence, d1, d2) ==
    LET newLevel == calculateNewLevel(card.level, confidence)
        nextReviewDate == calculateNextReviewDate(newLevel, d1)
    IN  [card |-> [card EXCEPT !.level = newLevel,
                               !.nextReviewDate = nextReviewDate,
                               !.lastReviewDate = toISOString(d2)],
         previousLevel |-> card.level,
         newLevel |-> newLevel,
         nextReviewDate |-> nextReviewDate]
reviewCard_DueFromPreviousLevel(card, confidence, d1, d2) ==
    LET newLevel == calculateNewLevel(card.level, confidence)
        nextReviewDate == calculateNextReviewDate(card.level, d1)
    IN  [card |-> [card EXCEPT !.level = newLevel,
                               !.nextReviewDate = nextReviewDate,
                               !.lastReviewDate = toISOString(d2),
                               !.reviewCount = card.reviewCount + 1],
         previousLevel |-> card.level,
         newLevel |-> newLevel,
         nextReviewDate |-> nextReviewDate]
reviewCard(card, confidence, d1, d2) ==
    LET previousLevel == card.level
        newLevel == calculateNewLevel(previousLevel, confidence)
        nextReviewDate == calculateNextReviewDate(newLevel, d1)
        updatedCard == [card EXCEPT !.level = newLevel,
                                    !.nextReviewDate = nextReviewDate,
                                    !.lastReviewDate = toISOString(d2),
                                    !.reviewCount = card.reviewCount + 1]
    IN  [card |-> updatedCard,
         previousLevel |-> previousLevel,
         newLevel |-> newLevel,
         nextReviewDate |-> nextReviewDate]

\* The object passed to reviewCard, as it is when the call has returned: the
\* spread builds a new object and nothing is assigned to a field of card.
reviewCardArgument(card, confidence, d1, d2) == card

isCardDue_UTC(card, d) == parseISO(card.nextReviewDate) <= setHours0_UTC(d)
isCardDue_StrictlyBefore(card, d) == parseISO(card.nextReviewDate) < setHours0(d)
isCardDue(card, d) == parseISO(card.nextReviewDate) <= setHours0(d)

\* cards.filter(isCardDue): isCardDue reads the clock once for each card, so
\* at[i] is the clock at the call for the i-th card.
RECURSIVE getDueCards_DueFirstLast(_, _)
getDueCards_DueFirstLast(cs, at) ==
    IF cs = <<>> THEN <<>>
    ELSE getDueCards_DueFirstLast(Tail(cs), Tail(at))
            \o (IF isCardDue(Head(cs), Head(at)) THEN <<Head(cs)>> ELSE <<>>)
RECURSIVE getDueCards(_, _)
getDueCards(cs, at) ==
    IF cs = <<>> THEN <<>>
    ELSE (IF isCardDue(Head(cs), Head(at)) THEN <<Head(cs)>> ELSE <<>>)
            \o getDueCards(Tail(cs), Tail(at))

RECURSIVE sumLevels(_)
\* cards.reduce((sum, card) => sum + card.level, 0)
sumLevels(cs) == IF cs = <<>> THEN 0 ELSE Head(cs).level + sumLevels(Tail(cs))

\* cards.filter((card) => card.level === 5).length
countMastered(cs) == Cardinality({i \in 1..Len(cs) : cs[i].level = 5})

\* Math.round of the quotient num / den (den > 0): the nearest integer, a
\* half going up.
MathRound_HalfDown(num, den) == (2 * num + den - 1) \div (2 * den)
MathRound(num, den) == (2 * num + den) \div (2 * den)

\* averageLevel is a number with one decimal; the model holds it in tenths:
\* Math.round(averageLevel * 10), the final / 10 being left to the reader of
\* the field.  at: the clock readings of getDueCards.
calculateDeckStats_AllToReview(cs, at) ==
    [totalCards |-> Len(cs),
     cardsToReview |-> Len(cs),
     masteredCards |-> countMastered(cs),
     averageLevel |-> IF Len(cs) > 0 THEN MathRound(sumLevels(cs) * 10, Len(cs))
                      ELSE MathRound(0, 1)]
calculateDeckStats(cs, at) ==
    LET totalCards == Len(cs)
        cardsToReview == Len(getDueCards(cs, at))
        masteredCards == countMastered(cs)
    IN  [totalCards |-> totalCards,
         cardsToReview |-> cardsToReview,
         masteredCards |-> masteredCards,
         averageLevel |-> IF totalCards > 0
                          THEN MathRound(sumLevels(cs) * 10, totalCards)
                          ELSE MathRound(0, 1)]

createNewCard_UTCMidnight(id, question, answer, d) ==
    [id |-> id,
     question |-> question,
     answer |-> answer,
     level |-> 0,
     nextReviewDate |-> toISOString(setHours0_UTC(d)),
     lastReviewDate |-> Null,
     createdAt |-> toISOString(d),
     reviewCount |-> 0]
createNewCard(id, question, answer, d) ==
    [id |-> id,
     question |-> question,
     answer |-> answer,
     level |-> 0,
     nextReviewDate |-> toISOString(setHours0(d)),
     lastReviewDate |-> Null,
     createdAt |-> toISOString(d),
     reviewCount |-> 0]

(* ------------------------------ JSON ----------------------------------- *)
\* JSON.stringify of a card: its fields in declaration order.
stringifyCard(c) ==
    <<c.id, c.question, c.answer, c.level, c.nextReviewDate,
      c.lastReviewDate, c.createdAt, c.reviewCount>>

JSONstringify(cs) == [i \in 1..Len(cs) |-> stringifyCard(cs[i])]

\* JSON.parse of a card: an object with the fields of the text.
parseCard(t) ==
    [id |-> t[1], question |-> t[2], answer |-> t[3], level |-> t[4],
     nextReviewDate |-> t[5], lastReviewDate |-> t[6], createdAt |-> t[7],
     reviewCount |-> t[8]]

JSONparse(text) == [i \in 1..Len(text) |-> parseCard(text[i])]

(* --------------------------- useFlashCards ----------------------------- *)
\* cards.findIndex((card) => card.id === cardId); 0 stands for -1.
findIndex(cs, cardId) ==
    IF \E i \in 1..Len(cs) : cs[i].id = cardId
    THEN CHOOSE i \in 1..Len(cs) :
            cs[i].id = cardId /\ \A j \in 1..(i - 1) : cs[j].id # cardId
    ELSE 0

RECURSIVE filterOut(_, _)
filterOut(cs, cardId) ==
    IF cs = <<>> THEN <<>>
    ELSE IF Head(cs).id = cardId THEN filterOut(Tail(cs), cardId)
         ELSE <<Head(cs)>> \o filterOut(Tail(cs), cardId)

RECURSIVE totalReviews(_)
totalReviews(cs) ==
    IF cs = <<>> THEN 0 ELSE Head(cs).reviewCount + totalReviews(Tail(cs))

\* calls: the number of calls of functions of the hook so far.
NoCall ==
    [op |-> "none", cardId |-> 0, confidence |-> "", found |-> FALSE,
     persisted |-> FALSE, calls |-> 0]

\* persistCards: setItem may throw (ok = FALSE); then setCards is not reached.
persistCards(updatedCards, ok) ==
    IF ok
    THEN /\ stored' = <<JSONstringify(updatedCards)>>
         /\ cards' = updatedCards
    ELSE UNCHANGED <<stored, cards>>

\* The callbacks addCard, reviewFlashCard, deleteCard and resetDeck are made
\* by useCallback with cards among their dependencies: a callback works on
\* the cards of the render that made it, whatever setCards has been given
\* since.
addCard(question, answer, ok) ==
    /\ last.calls < MaxCalls
    /\ Len(rendered) < MaxCards
    /\ nextId <= MaxIds
    /\ LET newCard == createNewCard(nextId, question, answer, now)
       IN  persistCards(rendered \o <<newCard>>, ok)
    /\ last' = [NoCall EXCEPT !.op = "addCard", !.cardId = nextId,
                              !.found = TRUE, !.persisted = ok,
                              !.calls = last.calls + 1]
    /\ nextId' = nextId + 1
    /\ UNCHANGED <<now, tz, tracked, op, fcall, hook, api, rendered, notif, home>>

\* d2 is the clock at the second new Date() of reviewCard; the first reads now.
\* The array of the render keeps the object passed to reviewCard, and the
\* copy handed to persistCards holds result.card in its place.
reviewFlashCard(cardId, confidence, d2, ok) ==
    LET cardIndex == findIndex(rendered, cardId)
    IN  /\ last.calls < MaxCalls
        /\ IF cardIndex = 0
           THEN /\ d2 = now
                /\ ok
                /\ last' = [NoCall EXCEPT !.op = "reviewFlashCard",
                                          !.cardId = cardId,
                                          !.confidence = confidence,
                                          !.calls = last.calls + 1]
                /\ UNCHANGED <<now, tz, tracked, op, cards, stored, nextId, fcall,
                               hook, api, rendered, notif, home>>
           ELSE /\ totalReviews(rendered) < MaxReviews
                /\ LET card == rendered[cardIndex]
                       result == reviewCard(card, confidence, now, d2)
                       after == reviewCardArgument(card, confidence, now, d2)
                       updatedCards == [rendered EXCEPT ![cardIndex] = result.card]
                   IN  /\ persistCards(updatedCards, ok)
                       /\ rendered' = [rendered EXCEPT ![cardIndex] = after]
                /\ last' = [op |-> "reviewFlashCard", cardId |-> cardId,
                            confidence |-> confidence, found |-> TRUE,
                            persisted |-> ok, calls |-> last.calls + 1]
                /\ now' = d2
                /\ UNCHANGED <<tz, tracked, op, nextId, fcall, hook, api, notif, home>>

deleteCard(cardId, ok) ==
    /\ last.calls < MaxCalls
    /\ persistCards(filterOut(rendered, cardId), ok)
    /\ last' = [NoCall EXCEPT !.op = "deleteCard", !.cardId = cardId,
                              !.persisted = ok, !.calls = last.calls + 1]
    /\ UNCHANGED <<now, tz, tracked, op, nextId, fcall, hook, api, rendered, notif, home>>

\* The body of the map of resetDeck; d is now after setHours(0, 0, 0, 0).
resetCard(c, d) ==
    [c EXCEPT !.level = 0,
              !.nextReviewDate = toISOString(d),
              !.lastReviewDate = Null,
              !.reviewCount = 0]

resetDeck(ok) ==
    LET d == setHours0(now)
        resetCards == [i \in 1..Len(rendered) |-> resetCard(rendered[i], d)]
    IN  /\ last.calls < MaxCalls
        /\ persistCards(resetCards, ok)
        /\ last' = [NoCall EXCEPT !.op = "resetDeck", !.persisted = ok,
                                  !.calls = last.calls + 1]
        /\ UNCHANGED <<now, tz, tracked, op, nextId, fcall, hook, api, rendered, notif, home>>

\* React renders the component again after setCards: the callbacks of the
\* new render close over the cards state as it is now.
render ==
    /\ rendered # cards
    /\ rendered' = cards
    /\ UNCHANGED <<now, tz, tracked, op, cards, stored, nextId, last, fcall,
                   hook, api, notif, home>>

\* The wall clock advances.
HookTick ==
    /\ now < Horizon
    /\ now' = now + 1
    /\ UNCHANGED <<tz, tracked, op, cards, stored, nextId, last, fcall, hook, api, rendered, notif, home>>

(* ------------------------------ flashcardApi --------------------------- *)
\* CACHE_DURATION: 24 hours.
CACHE_DURATION == DayLen

\* a: the api state; d: Date.now().
isCacheValid_UntilExpiry(a, d) == a.expiry # Null /\ d <= a.expiry[1]
isCacheValid(a, d) == a.expiry # Null /\ d < a.expiry[1]

\* getCachedFlashcards: what it returns (Null for null, else <<cards>>) and
\* the cache entries it leaves.
getCachedFlashcards(a, d) ==
    IF ~isCacheValid(a, d)
    THEN [cards |-> Null, api |-> [a EXCEPT !.cache = Null, !.expiry = Null]]
    ELSE IF a.cache = Null
         THEN [cards |-> Null, api |-> a]
         ELSE [cards |-> <<JSONparse(a.cache[1])>>, api |-> a]

\* cacheFlashcards: written is the number of its two setItem calls that
\* localStorage accepts before one throws.
cacheFlashcards(a, cs, d, written) ==
    [a EXCEPT !.cache = IF written >= 1 THEN <<JSONstringify(cs)>> ELSE a.cache,
              !.expiry = IF written >= 2 THEN <<d + CACHE_DURATION>> ELSE a.expiry]

\* fetchFlashcards from "Try to use cached data" on: reached when the client
\* is not online or fetchFromOpenTrivia has thrown (network names which).
fetchFromCache(a, d, network) ==
    LET cached == getCachedFlashcards(a, d)
    IN  IF cached.cards # Null
        THEN [cards |-> cached.cards[1], isOffline |-> ~a.online,
              fromCache |-> TRUE, network |-> network, api |-> cached.api]
        ELSE [cards |-> <<>>, isOffline |-> TRUE,
              fromCache |-> FALSE, network |-> network, api |-> cached.api]

\* fetchFlashcards when fetchFromOpenTrivia has returned n cards, made by
\* createNewCard at d with the identifiers from id on.
fetchFromNetwork(a, n, id, d, written) ==
    LET fetchedCards == [i \in 1..n |-> createNewCard(id + i - 1, "Q2", "A1", d)]
    IN  [cards |-> fetchedCards, isOffline |-> FALSE, fromCache |-> FALSE,
         network |-> "ok", api |-> cacheFlashcards(a, fetchedCards, d, written)]

(* ------------------------- lib/notifications --------------------------- *)
\* The times of day a reminder can be set for, in ticks after local midnight.
Hours == 0..(DayLen - 1)

Permissions == {"default", "granted", "denied"}

\* The service after construction, in a page that has set no timer.
\*   permission       Notification.permission
\*   reminderTimeout  this.reminderTimeout: Null or <<timer id>>
\*   timers           the timers of setTimeout that have neither fired nor
\*                    been cleared
\*   nextTimer        the id the next setTimeout returns
\*   reminder         localStorage["braindeck-reminder"]: Null or <<settings>>
\*   awaiting         the calls suspended at await this.requestPermission()
\*                    while the browser asks the user
\*   shown            the reminders shown so far, as notification or alert
\*   fired            the timers that have fired so far
\*   invocations      the calls of scheduleDailyReminder and cancelReminders
\*                    made from outside the service so far
\*   cancelled        cancelReminders has returned and scheduleDailyReminder
\*                    has not been invoked since
\*   overtaken        calls were suspended at their await when that
\*                    cancelReminders ran
NoNotif ==
    [permission |-> "default", reminderTimeout |-> Null, timers |-> {},
     nextTimer |-> 1, reminder |-> Null, awaiting |-> <<>>, shown |-> 0,
     fired |-> 0, invocations |-> 0, cancelled |-> FALSE, overtaken |-> FALSE]

NoHome == [reviewedCardIds |-> {}, sessionComplete |-> FALSE, dueCards |-> <<>>]

\* reminderTime of scheduleDailyReminder: d1 is the clock at "now", d2 the
\* clock at the new Date() that reminderTime starts from.
reminderTime_StrictlyPassed(hour, d1, d2) ==
    LET today == setHours0(d2) + hour
    IN  IF today < d1 THEN today + DayLen ELSE today

reminderTime(hour, d1, d2) ==
    LET today == setHours0(d2) + hour
    IN  IF today <= d1 THEN today + DayLen ELSE today

\* clearTimeout(id): the timer with that id, if still pending, is dropped.
clearTimeout(timers, id) == {t \in timers : t.id # id}

\* scheduleDailyReminder from "Calculate next reminder time" on, permission
\* being granted.  The timer runs its delay from the call of setTimeout, at d2.
scheduleGranted_KeepTimeout(n, hour, d1, d2) ==
    LET at == reminderTime(hour, d1, d2)
        delay == at - d1
    IN  [n EXCEPT !.reminder = <<[hour |-> hour, nextReminder |-> toISOString(at)]>>,
                  !.timers = n.timers \cup {[id |-> n.nextTimer, at |-> d2 + delay,
                                             delay |-> delay, hour |-> hour]},
                  !.reminderTimeout = <<n.nextTimer>>,
                  !.nextTimer = n.nextTimer + 1]

scheduleGranted(n, hour, d1, d2) ==
    LET at == reminderTime(hour, d1, d2)
        delay == at - d1
        pending == IF n.reminderTimeout # Null
                   THEN clearTimeout(n.timers, n.reminderTimeout[1])
                   ELSE n.timers
    IN  [n EXCEPT !.reminder = <<[hour |-> hour, nextReminder |-> toISOString(at)]>>,
                  !.timers = pending \cup {[id |-> n.nextTimer, at |-> d2 + delay,
                                            delay |-> delay, hour |-> hour]},
                  !.reminderTimeout = <<n.nextTimer>>,
                  !.nextTimer = n.nextTimer + 1]

\* A call of scheduleDailyReminder up to and including what follows its await
\* when requestPermission answers without asking the user: with permission
\* granted the rest of the function runs before any other event, with
\* permission denied the function returns, and otherwise the call waits for
\* the user's answer.
scheduleCalled(n, hour, d1, d2) ==
    IF n.permission = "granted"
    THEN scheduleGranted(n, hour, d1, d2)
    ELSE IF n.permission = "denied"
         THEN n
         ELSE [n EXCEPT !.awaiting = Append(n.awaiting,
                                            [fn |-> "scheduleDailyReminder",
                                             hour |-> hour])]

\* showNotification of the reminder, likewise: with permission granted the
\* notification is shown, with permission denied alert() shows the text.
showCalled(n) ==
    IF n.permission = "default"
    THEN [n EXCEPT !.awaiting = Append(n.awaiting,
                                       [fn |-> "showNotification", hour |-> 0])]
    ELSE [n EXCEPT !.shown = n.shown + 1]

\* d2 can differ from now only where the clock is read twice.
ReadsClockTwice(n, d2) ==
    (d2 # now) => (n.permission = "granted" /\ d2 <= Horizon)

scheduleDailyReminder(hour, d2) ==
    /\ notif.invocations < MaxInvocations
    /\ notif.nextTimer <= MaxTimers
    /\ ReadsClockTwice(notif, d2)
    /\ notif' = [scheduleCalled(notif, hour, now, d2)
                    EXCEPT !.invocations = notif.invocations + 1,
                           !.cancelled = FALSE,
                           !.overtaken = FALSE]
    /\ now' = d2
    /\ UNCHANGED <<tz, tracked, op, cards, stored, nextId, last, fcall, hook, api,
                   rendered, home>>

RemoveAt(q, i) == [j \in 1..(Len(q) - 1) |-> IF j < i THEN q[j] ELSE q[j + 1]]

\* Notification.requestPermission() settles for the i-th waiting call with
\* result r, and the call goes on after its await.
permissionSettles(i, r, d2) ==
    /\ i \in 1..Len(notif.awaiting)
    /\ notif.nextTimer <= MaxTimers
    /\ IF notif.permission = "default" THEN TRUE ELSE r = notif.permission
    /\ LET call == notif.awaiting[i]
           n == [notif EXCEPT !.permission = r,
                              !.awaiting = RemoveAt(notif.awaiting, i)]
       IN  /\ (d2 # now) => (call.fn = "scheduleDailyReminder" /\ r = "granted"
                             /\ d2 <= Horizon)
           /\ notif' = IF call.fn = "showNotification"
                       THEN [n EXCEPT !.shown = n.shown + 1]
                       ELSE IF r = "granted"
                            THEN scheduleGranted(n, call.hour, now, d2)
                            ELSE n
    /\ now' = d2
    /\ UNCHANGED <<tz, tracked, op, cards, stored, nextId, last, fcall, hook, api,
                   rendered, home>>

\* The callback of setTimeout runs, no earlier than its delay after the call
\* of setTimeout: showNotification, then scheduleDailyReminder(hour, minute).
timerFires(t, d2) ==
    /\ t \in notif.timers
    /\ now >= t.at
    /\ notif.nextTimer <= MaxTimers
    /\ ReadsClockTwice(notif, d2)
    /\ LET n == [notif EXCEPT !.timers = notif.timers \ {t},
                              !.fired = notif.fired + 1]
       IN  notif' = scheduleCalled(showCalled(n), t.hour, now, d2)
    /\ now' = d2
    /\ UNCHANGED <<tz, tracked, op, cards, stored, nextId, last, fcall, hook, api,
                   rendered, home>>

cancelReminders ==
    /\ notif.invocations < MaxInvocations
    /\ notif' = [notif EXCEPT
                    !.timers = IF notif.reminderTimeout # Null
                               THEN clearTimeout(notif.timers, notif.reminderTimeout[1])
                               ELSE notif.timers,
                    !.reminderTimeout = Null,
                    !.reminder = Null,
                    !.invocations = notif.invocations + 1,
                    !.cancelled = TRUE,
                    !.overtaken = notif.awaiting # <<>>]
    /\ UNCHANGED <<now, tz, tracked, op, cards, stored, nextId, last, fcall, hook,
                   api, rendered, home>>

\* The user changes the notification permission of the site in the settings
\* of the browser.
permissionChanges(p) ==
    /\ p # notif.permission
    /\ notif' = [notif EXCEPT !.permission = p]
    /\ UNCHANGED <<now, tz, tracked, op, cards, stored, nextId, last, fcall, hook,
                   api, rendered, home>>

NotifTick ==
    /\ now < Horizon
    /\ now' = now + 1
    /\ UNCHANGED <<tz, tracked, op, cards, stored, nextId, last, fcall, hook, api,
                   rendered, notif, home>>

(* --------------------- useFlashCards: initialization ------------------- *)
\* initializeSampleCards: SampleCards cards made by createNewCard.
SampleCards == 8

initializeSampleCards(id, d) ==
    [i \in 1..SampleCards |-> createNewCard(id + i - 1, "Q1", "A1", d)]

\* updateCardsFromAPI after the await of fetchFlashcards, which returned res.
\* prevCards, prevStored, h: the cards state, the stored text and the hook
\* state it finds; ok: localStorage accepts setItem.  The result: the states
\* it leaves and the number of identifiers it has used.
updateCardsFromAPI(prevCards, prevStored, h, res, id, d, ok) ==
    IF Len(res.cards) > 0
    THEN LET afterFirst == IF Len(prevCards) > 0 THEN prevCards ELSE res.cards
             \* the second updater runs on the state the first one returned
             save == Len(afterFirst) = 0 /\ Len(res.cards) > 0
         IN  [cards |-> afterFirst,
              stored |-> IF save /\ ok THEN <<JSONstringify(res.cards)>>
                         ELSE prevStored,
              hook |-> [h EXCEPT !.isOffline = res.isOffline,
                                 !.error = IF res.fromCache
                                           THEN <<"Using cached flashcards">>
                                           ELSE Null],
              used |-> 0]
    ELSE IF ~res.isOffline
         THEN LET demoCards == initializeSampleCards(id, d)
              IN  \* setItem throwing leads to the catch block, whose updater
                  \* finds the demo cards and keeps them
                  [cards |-> demoCards,
                   stored |-> IF ok THEN <<JSONstringify(demoCards)>> ELSE prevStored,
                   hook |-> [h EXCEPT !.error =
                                IF ok THEN <<"Failed to fetch flashcards. Using demo data.">>
                                ELSE <<"Failed to fetch flashcards">>],
                   used |-> SampleCards]
         ELSE [cards |-> prevCards, stored |-> prevStored, hook |-> h, used |-> 0]

\* What the hook keeps of the answer of fetchFlashcards.
Fetched(res) ==
    <<[network |-> res.network, count |-> Len(res.cards),
       isOffline |-> res.isOffline, fromCache |-> res.fromCache]>>

\* initializeCards from the await of fetchFlashcards on, res being its
\* answer: updateCardsFromAPI, then setIsLoading(false) of the finally block.
FinishInitialization(prevCards, h, res, ok) ==
    LET u == updateCardsFromAPI(prevCards, stored, h, res, nextId, now, ok)
    IN  /\ cards' = u.cards
        /\ stored' = u.stored
        /\ nextId' = nextId + u.used + (IF res.network = "ok" THEN Len(res.cards) ELSE 0)
        /\ hook' = [u.hook EXCEPT !.isLoading = FALSE, !.pc = "done",
                                  !.fetched = Fetched(res)]
        /\ api' = res.api

\* The mount effect: initializeCards up to the network request.  A client
\* that is not online makes none, and initializeCards runs to its end.
initializeCards ==
    /\ hook.pc = "mount"
    /\ LET loaded == stored # Null
           parsedCards == IF loaded THEN JSONparse(stored[1]) ELSE cards
           h == [hook EXCEPT !.isLoading = ~loaded, !.error = Null]
       IN  IF api.online
           THEN /\ cards' = parsedCards
                /\ hook' = [h EXCEPT !.pc = "fetching"]
                /\ UNCHANGED <<stored, nextId, api>>
           ELSE \E ok \in BOOLEAN :
                   FinishInitialization(parsedCards, h,
                                        fetchFromCache(api, now, "offline"), ok)
    /\ UNCHANGED <<now, tz, tracked, op, last, fcall, rendered, notif, home>>

\* fetchFromOpenTrivia settles: it throws (n = -1) or returns n cards.
fetchSettles(n, written, ok) ==
    /\ hook.pc = "fetching"
    /\ IF n < 0
       THEN /\ written = 0
            /\ FinishInitialization(cards, hook, fetchFromCache(api, now, "failed"), ok)
       ELSE FinishInitialization(cards, hook,
                                 fetchFromNetwork(api, n, nextId, now, written), ok)
    /\ UNCHANGED <<now, tz, tracked, op, last, fcall, rendered, notif, home>>

\* The online and offline events of window: navigator.onLine has changed and
\* handleOnline or handleOffline, listening since the mount effect, runs.
connectionChanges ==
    /\ hook.pc # "mount"
    /\ api' = [api EXCEPT !.online = ~api.online]
    /\ hook' = [hook EXCEPT !.isOffline = api.online]
    /\ UNCHANGED <<now, tz, tracked, op, cards, stored, nextId, last, fcall, rendered, notif, home>>

InitTick ==
    /\ now < Horizon
    /\ now' = now + 1
    /\ UNCHANGED <<tz, tracked, op, cards, stored, nextId, last, fcall, hook, api, rendered, notif, home>>

\* useState of isLoading, isOffline, error; the mount effect has not run.
NoHook ==
    [isLoading |-> TRUE, isOffline |-> FALSE, error |-> Null, pc |-> "mount",
     fetched |-> Null]

NoApi == [online |-> TRUE, cache |-> Null, expiry |-> Null]

\* previousLevel: the level of the card when the operation began.
NoOp == [name |-> "none", confidence |-> "", previousLevel |-> 0]

NoFn ==
    [fn |-> "none", level |-> 0, confidence |-> "", date |-> 0, date2 |-> 0,
     at |-> <<>>, card |-> Null, arg |-> Null, out |-> Null, prior |-> Null]

Init ==
    /\ now = Epoch
    /\ tz \in TZOffsets
    /\ tracked = Null
    /\ op = NoOp
    /\ cards = <<>>
    /\ stored = Null
    /\ nextId = 1
    /\ last = NoCall
    /\ fcall = NoFn
    /\ hook = NoHook
    /\ api = NoApi
    /\ rendered = <<>>
    /\ notif = NoNotif
    /\ home = NoHome

HookNext ==
    \/ \E q \in Questions, a \in Answers, ok \in BOOLEAN : addCard(q, a, ok)
    \/ \E id \in 1..MaxIds, c \in Confidences, d2 \in {now, now + 1}, ok \in BOOLEAN :
          d2 <= Horizon /\ reviewFlashCard(id, c, d2, ok)
    \/ \E id \in 1..MaxIds, ok \in BOOLEAN : deleteCard(id, ok)
    \/ \E ok \in BOOLEAN : resetDeck(ok)
    \/ render
    \/ HookTick

HookSpec == Init /\ [][HookNext]_vars

(* ------------------------ the lifecycle of a card ---------------------- *)
\* createNewCard.
CreateCard(question, answer) ==
    /\ tracked = Null
    /\ tracked' = <<createNewCard(1, question, answer, now)>>
    /\ op' = [NoOp EXCEPT !.name = "create"]
    /\ UNCHANGED <<now, tz, cards, stored, nextId, last, fcall, hook, api, rendered, notif, home>>

\* reviewCard, the returned card taking the place of the reviewed one.
ReviewCard(confidence, d2) ==
    /\ tracked # Null
    /\ tracked[1].reviewCount < MaxReviews
    /\ LET result == reviewCard(tracked[1], confidence, now, d2)
       IN  /\ tracked' = <<result.card>>
           /\ op' = [name |-> "review", confidence |-> confidence,
                     previousLevel |-> result.previousLevel]
    /\ now' = d2
    /\ UNCHANGED <<tz, cards, stored, nextId, last, fcall, hook, api, rendered, notif, home>>

\* resetDeck, for the card followed.
ResetCard ==
    /\ tracked # Null
    /\ tracked' = <<resetCard(tracked[1], setHours0(now))>>
    /\ op' = [NoOp EXCEPT !.name = "reset", !.previousLevel = tracked[1].level]
    /\ UNCHANGED <<now, tz, cards, stored, nextId, last, fcall, hook, api, rendered, notif, home>>

Tick ==
    /\ now < Horizon
    /\ now' = now + 1
    /\ UNCHANGED <<tz, tracked, op, cards, stored, nextId, last, fcall, hook, api, rendered, notif, home>>

Next ==
    \/ \E q \in Questions, a \in Answers : CreateCard(q, a)
    \/ \E c \in Confidences, d2 \in {now, now + 1} : d2 <= Horizon /\ ReviewCard(c, d2)
    \/ ResetCard
    \/ Tick

Spec == Init /\ [][Next]_vars

(* ------------------- the functions of lib/leitner, called -------------- *)
\* Cards a deck can hold at some time up to t: created at c, and reviewed at
\* r for the last time if reviewed at all.
CardInputs(t) ==
    {createNewCard(1, q, "A1", c) : q \in Questions, c \in Epoch..t}
    \cup
    {[createNewCard(1, "Q1", "A1", c) EXCEPT
          !.level = x[1],
          !.reviewCount = x[1] + x[2],
          !.nextReviewDate = calculateNextReviewDate(x[1], r),
          !.lastReviewDate = toISOString(r)] :
       x \in {y \in Levels \X {0, 1} : y[1] + y[2] > 0}, c \in {Epoch}, r \in Epoch..t}

\* Cards as JSON.parse hands them over: nextReviewDate is whatever was stored.
DueInputs ==
    {[createNewCard(1, "Q1", "A1", Epoch) EXCEPT !.nextReviewDate = toISOString(d)] :
       d \in (Epoch - DayLen)..(Horizon + DayLen)}

CallCalculateNewLevel(currentLevel, confidence) ==
    /\ fcall' = [NoFn EXCEPT !.fn = "calculateNewLevel",
                             !.level = currentLevel,
                             !.confidence = confidence,
                             !.out = <<calculateNewLevel(currentLevel, confidence)>>]
    /\ UNCHANGED <<now, tz, tracked, op, cards, stored, nextId, last, hook, api, rendered, notif, home>>

\* The values a caller can pass at run time, where the types LeitnerLevel and
\* ConfidenceScore are erased: levels and confidences outside the two types
\* as well.
RuntimeLevels == (0 - 1)..6
RuntimeConfidences == Confidences \cup {"maybe"}

\* calculateNewLevel called with at least one argument outside its types.
\* The function has no throw statement: every call returns a number.
CallCalculateNewLevelUntyped(currentLevel, confidence) ==
    /\ currentLevel \notin Levels \/ confidence \notin Confidences
    /\ fcall' = [NoFn EXCEPT !.fn = "calculateNewLevel",
                             !.level = currentLevel,
                             !.confidence = confidence,
                             !.out = <<calculateNewLevel(currentLevel, confidence)>>]
    /\ UNCHANGED <<now, tz, tracked, op, cards, stored, nextId, last, hook, api, rendered, notif, home>>

CallCalculateNextReviewDate(level, fromDate) ==
    /\ fcall' = [NoFn EXCEPT !.fn = "calculateNextReviewDate",
                             !.level = level,
                             !.date = fromDate,
                             !.out = <<calculateNextReviewDate(level, fromDate)>>]
    /\ UNCHANGED <<now, tz, tracked, op, cards, stored, nextId, last, hook, api, rendered, notif, home>>

\* The clock reads now at the first new Date() and d2 at the second.
CallReviewCard(c, confidence, d2) ==
    /\ fcall' = [NoFn EXCEPT !.fn = "reviewCard",
                             !.card = <<c>>,
                             !.confidence = confidence,
                             !.date = now,
                             !.date2 = d2,
                             !.arg = <<reviewCardArgument(c, confidence, now, d2)>>,
                             !.out = <<reviewCard(c, confidence, now, d2)>>]
    /\ now' = d2
    /\ UNCHANGED <<tz, tracked, op, cards, stored, nextId, last, hook, api, rendered, notif, home>>

\* isCardDue reads the clock; prior keeps the call before it, when that was a
\* call of isCardDue too.
CallIsCardDue(c) ==
    /\ fcall' = [NoFn EXCEPT !.fn = "isCardDue",
                             !.card = <<c>>,
                             !.date = now,
                             !.out = <<isCardDue(c, now)>>,
                             !.prior = IF fcall.fn = "isCardDue"
                                       THEN <<[card |-> fcall.card[1],
                                               date |-> fcall.date,
                                               out |-> fcall.out[1]]>>
                                       ELSE Null]
    /\ UNCHANGED <<now, tz, tracked, op, cards, stored, nextId, last, hook, api, rendered, notif, home>>

FnTick ==
    /\ now < Horizon
    /\ now' = now + 1
    /\ UNCHANGED <<tz, tracked, op, cards, stored, nextId, last, fcall, hook, api, rendered, notif, home>>

FnNext ==
    \/ \E l \in Levels, c \in Confidences : CallCalculateNewLevel(l, c)
    \/ \E l \in RuntimeLevels, c \in RuntimeConfidences :
          CallCalculateNewLevelUntyped(l, c)
    \/ \E l \in Levels, d \in Instants : CallCalculateNextReviewDate(l, d)
    \/ \E c \in CardInputs(now), k \in Confidences, d2 \in {now, now + 1} :
          d2 <= Horizon /\ CallReviewCard(c, k, d2)
    \/ \E c \in DueInputs : CallIsCardDue(c)
    \/ FnTick

FnSpec == Init /\ [][FnNext]_vars

(* ---------------------- the functions called on a deck ----------------- *)
\* A card of a deck as it stands at Epoch: fresh at level 0, or at level l
\* after a last review on the day that makes it fall due k days after Epoch.
DeckCard(id, l, k) ==
    IF l = 0
    THEN createNewCard(id, "Q1", "A1", Epoch)
    ELSE LET r == Epoch - (LEITNER_INTERVALS[l] - k) * DayLen
         IN  [createNewCard(id, "Q1", "A1", r) EXCEPT
                  !.level = l,
                  !.reviewCount = l,
                  !.nextReviewDate = calculateNextReviewDate(l, r),
                  !.lastReviewDate = toISOString(r)]

\* The kinds <<l, k>> of card the decks are made of: fresh, learning and
\* mastered cards, due on the day of Epoch or on the day after it.
DeckKinds == {<<0, 0>>, <<1, 1>>, <<2, 0>>, <<5, 0>>}

\* The decks JSON.parse hands to setCards: cards with distinct ids.
DeckInputs ==
    UNION {{[i \in 1..n |-> DeckCard(i, f[i][1], f[i][2])] : f \in [1..n -> DeckKinds]} :
              n \in 0..MaxDeck}

\* The clock readings of one pass over n cards: the clock is read once for
\* each card and moves on by at most one tick during the pass.
ClockReadings(n) ==
    {[i \in 1..n |-> IF i <= j THEN now ELSE now + 1] : j \in 0..n}

LastReading(at) == IF at = <<>> THEN now ELSE at[Len(at)]

CallGetDueCards(at) ==
    /\ fcall' = [NoFn EXCEPT !.fn = "getDueCards",
                             !.card = <<cards>>,
                             !.at = at,
                             !.out = <<getDueCards(cards, at)>>]
    /\ now' = LastReading(at)
    /\ UNCHANGED <<tz, tracked, op, cards, stored, nextId, last, hook, api, rendered, notif, home>>

CallCalculateDeckStats(at) ==
    /\ fcall' = [NoFn EXCEPT !.fn = "calculateDeckStats",
                             !.card = <<cards>>,
                             !.at = at,
                             !.out = <<calculateDeckStats(cards, at)>>]
    /\ now' = LastReading(at)
    /\ UNCHANGED <<tz, tracked, op, cards, stored, nextId, last, hook, api, rendered, notif, home>>

DeckInit ==
    /\ now \in Instants
    /\ tz \in TZOffsets
    /\ tracked = Null
    /\ op = NoOp
    /\ cards \in DeckInputs
    /\ stored = IF cards = <<>> THEN Null ELSE <<JSONstringify(cards)>>
    /\ nextId = MaxDeck + 1
    /\ last = NoCall
    /\ fcall = NoFn
    /\ hook = NoHook
    /\ api = NoApi
    /\ rendered = cards
    /\ notif = NoNotif
    /\ home = NoHome

DeckNext ==
    \/ \E at \in ClockReadings(Len(cards)) :
          LastReading(at) <= Horizon /\ CallGetDueCards(at)
    \/ \E at \in ClockReadings(Len(cards)) :
          LastReading(at) <= Horizon /\ CallCalculateDeckStats(at)

DeckSpec == DeckInit /\ [][DeckNext]_vars

(* ------------------------ resetDeck on a loaded deck ------------------- *)
ResetNext ==
    \/ \E ok \in BOOLEAN : resetDeck(ok)
    \/ render
    \/ HookTick

ResetSpec == DeckInit /\ [][ResetNext]_vars

(* ------------------------ the hook is mounted -------------------------- *)
\* The decks an earlier session can have left in localStorage.
StoredDecks == {d \in DeckInputs : Len(d) <= MaxCards}

\* The cache an earlier session can have left: n cards fetched at f, with
\* the expiry cacheFlashcards wrote then, or without it when the second
\* setItem of cacheFlashcards threw.
CacheInputs ==
    {[cache |-> <<JSONstringify([i \in 1..n |->
                      createNewCard(0 - i, "Q2", "A1", f)])>>,
      expiry |-> IF written THEN <<f + CACHE_DURATION>> ELSE Null] :
        n \in 0..MaxFetch, f \in {Epoch - DayLen, Epoch - 1},
        written \in BOOLEAN}
    \cup {[cache |-> Null, expiry |-> Null]}

MountInit ==
    /\ now = Epoch
    /\ tz \in TZOffsets
    /\ tracked = Null
    /\ op = NoOp
    /\ cards = <<>>
    /\ stored \in {Null} \cup {<<JSONstringify(d)>> : d \in StoredDecks}
    /\ nextId = MaxCards + 1
    /\ last = NoCall
    /\ fcall = NoFn
    /\ hook = NoHook
    /\ api \in {[online |-> o, cache |-> c.cache, expiry |-> c.expiry] :
                   o \in BOOLEAN, c \in CacheInputs}
    /\ rendered = <<>>
    /\ notif = NoNotif
    /\ home = NoHome

MountNext ==
    \/ initializeCards
    \/ \E n \in (0 - 1)..MaxFetch, written \in 0..2, ok \in BOOLEAN :
          fetchSettles(n, written, ok)
    \/ connectionChanges
    \/ InitTick

MountSpec == MountInit /\ [][MountNext]_vars

(* ------------- the notification service and its callers --------------- *)
\* The page has loaded: no timer is set, no reminder is stored, and the site
\* has any of the three permissions.
NotifInit ==
    /\ now = Epoch
    /\ tz \in TZOffsets
    /\ tracked = Null
    /\ op = NoOp
    /\ cards = <<>>
    /\ stored = Null
    /\ nextId = 1
    /\ last = NoCall
    /\ fcall = NoFn
    /\ hook = NoHook
    /\ api = NoApi
    /\ rendered = <<>>
    /\ notif \in {[NoNotif EXCEPT !.permission = p] : p \in Permissions}
    /\ home = NoHome

NotifNext ==
    \/ \E hour \in Hours, d2 \in {now, now + 1} : scheduleDailyReminder(hour, d2)
    \/ \E i \in 1..MaxInvocations + MaxTimers, r \in Permissions, d2 \in {now, now + 1} :
          permissionSettles(i, r, d2)
    \/ \E t \in notif.timers, d2 \in {now, now + 1} : timerFires(t, d2)
    \/ cancelReminders
    \/ \E p \in Permissions : permissionChanges(p)
    \/ NotifTick

NotifSpec == NotifInit /\ [][NotifNext]_vars

(* ------------------------------ app/page: Home ------------------------- *)
\* dueCards of the hook as a render of Home gets it: getDueCards(cards), the
\* clock standing at d throughout the pass.
dueCardsAt(cs, d) == getDueCards(cs, [i \in 1..Len(cs) |-> d])

\* dueCards.filter((card) => !reviewedCardIds.has(card.id))
RECURSIVE sessionCardsOf(_, _)
sessionCardsOf(due, reviewed) ==
    IF due = <<>> THEN <<>>
    ELSE (IF Head(due).id \in reviewed THEN <<>> ELSE <<Head(due)>>)
            \o sessionCardsOf(Tail(due), reviewed)

sessionCards == sessionCardsOf(home.dueCards, home.reviewedCardIds)

\* The three branches of the study session view.
ShowsAllCaughtUp == home.dueCards = <<>>
ShowsSessionComplete == home.dueCards # <<>> /\ home.sessionComplete
ShowsProgress == home.dueCards # <<>> /\ ~home.sessionComplete

\* handleReview, called by the FlashCard of the current card, and the render
\* that follows it: reviewFlashCard on the cards of the last render, the two
\* state updates, then Home with the new cards and the clock at d2.
handleReview(confidence, d2, ok) ==
    /\ ShowsProgress
    /\ sessionCards # <<>>
    /\ totalReviews(rendered) < MaxReviews
    /\ LET currentCard == sessionCards[1]
           cardIndex == findIndex(rendered, currentCard.id)
           result == reviewCard(rendered[cardIndex], confidence, now, d2)
           updatedCards == [rendered EXCEPT ![cardIndex] = result.card]
       IN  /\ cardIndex # 0
           /\ persistCards(updatedCards, ok)
           /\ home' = [reviewedCardIds |-> home.reviewedCardIds \cup {currentCard.id},
                       sessionComplete |-> Len(sessionCards) <= 1,
                       dueCards |-> dueCardsAt(cards', d2)]
    /\ rendered' = cards'
    /\ now' = d2
    /\ UNCHANGED <<tz, tracked, op, nextId, last, fcall, hook, api, notif>>

\* handleRestart, called by "Review Again", and the render that follows it.
handleRestart ==
    /\ ShowsSessionComplete
    /\ home' = [reviewedCardIds |-> {}, sessionComplete |-> FALSE,
                dueCards |-> dueCardsAt(cards, now)]
    /\ UNCHANGED <<now, tz, tracked, op, cards, stored, nextId, last, fcall, hook,
                   api, rendered, notif>>

\* resetDeck of the hook, called by "Reset All Cards", and the render that
\* follows it.
handleResetDeck(ok) ==
    /\ ShowsAllCaughtUp
    /\ LET d == setHours0(now)
           resetCards == [i \in 1..Len(rendered) |-> resetCard(rendered[i], d)]
       IN  persistCards(resetCards, ok)
    /\ rendered' = cards'
    /\ home' = [home EXCEPT !.dueCards = dueCardsAt(cards', now)]
    /\ UNCHANGED <<now, tz, tracked, op, nextId, last, fcall, hook, api, notif>>

\* The online or offline event of window sets isOffline, and Home renders
\* again with the cards due by now.
homeConnectionChanges ==
    /\ api' = [api EXCEPT !.online = ~api.online]
    /\ hook' = [hook EXCEPT !.isOffline = api.online]
    /\ home' = [home EXCEPT !.dueCards = dueCardsAt(cards, now)]
    /\ UNCHANGED <<now, tz, tracked, op, cards, stored, nextId, last, fcall,
                   rendered, notif>>

HomeTick ==
    /\ now < Horizon
    /\ now' = now + 1
    /\ UNCHANGED <<tz, tracked, op, cards, stored, nextId, last, fcall, hook, api,
                   rendered, notif, home>>

\* Home after the first render that follows the initialization of the hook:
\* the deck is loaded, nothing is reviewed in the session.
HomeInit ==
    /\ now = Epoch
    /\ tz \in TZOffsets
    /\ tracked = Null
    /\ op = NoOp
    /\ cards \in StoredDecks
    /\ stored = IF cards = <<>> THEN Null ELSE <<JSONstringify(cards)>>
    /\ nextId = MaxDeck + 1
    /\ last = NoCall
    /\ fcall = NoFn
    /\ hook = [NoHook EXCEPT !.isLoading = FALSE, !.pc = "done"]
    /\ api = NoApi
    /\ rendered = cards
    /\ notif = NoNotif
    /\ home = [NoHome EXCEPT !.dueCards = dueCardsAt(cards, now)]

HomeNext ==
    \/ \E c \in Confidences, d2 \in {now, now + 1}, ok \in BOOLEAN :
          d2 <= Horizon /\ handleReview(c, d2, ok)
    \/ handleRestart
    \/ \E ok \in BOOLEAN : handleResetDeck(ok)
    \/ homeConnectionChanges
    \/ HomeTick

HomeSpec == HomeInit /\ [][HomeNext]_vars

(* ------------------------------ properties ----------------------------- *)
\* The table of the specification, level 0 first.
IntervalDays == <<0, 1, 3, 7, 14, 30>>

\* The instant at which the local calendar day of d began.
StartOfLocalDay(d) == CHOOSE m \in (d - DayLen + 1)..d : (m + tz) % DayLen = 0

LocalDay(d) == (d + tz) \div DayLen

\* C1: through createCard, reviewCard with either confidence and deck reset,
\* the level of the card is an integer of 0..5.
C1_LevelInRange == tracked # Null => tracked[1].level \in 0..5

C1_Witness ==
    /\ tracked # Null
    /\ op.name = "review"
    /\ op.confidence = "know"
    /\ op.previousLevel = 5
    /\ tracked[1].level = 5

\* C2: calculateNewLevel(L, "know") is min(L + 1, 5) for every L of 0..5; at
\* 5 it stays 5.
C2_KnowSaturates ==
    (fcall.fn = "calculateNewLevel" /\ fcall.confidence = "know")
        => fcall.out[1] = (IF fcall.level < 5 THEN fcall.level + 1 ELSE 5)

C2_Witness ==
    /\ fcall.fn = "calculateNewLevel"
    /\ fcall.confidence = "know"
    /\ fcall.level = 5
    /\ fcall.out = <<5>>

\* C3: calculateNewLevel(L, "forgot") is 0 for every L of 0..5.
C3_ForgotResets ==
    (fcall.fn = "calculateNewLevel" /\ fcall.confidence = "forgot")
        => fcall.out[1] = 0

C3_Witness ==
    /\ fcall.fn = "calculateNewLevel"
    /\ fcall.confidence = "forgot"
    /\ fcall.level = 5
    /\ fcall.out = <<0>>

\* C4: levels 0..5 map to 0, 1, 3, 7, 14, 30 days, the interval never
\* decreases as the level grows, and a computed due date lies that many
\* calendar days after the reference day.
C4_IntervalTable ==
    /\ \A l \in Levels : LEITNER_INTERVALS[l] = IntervalDays[l + 1]
    /\ \A l \in 0..4 : LEITNER_INTERVALS[l] <= LEITNER_INTERVALS[l + 1]
    /\ fcall.fn = "calculateNextReviewDate"
          => LocalDay(parseISO(fcall.out[1])) - LocalDay(fcall.date)
                = IntervalDays[fcall.level + 1]

C4_Witness ==
    /\ fcall.fn = "calculateNextReviewDate"
    /\ fcall.level = 5
    /\ LocalDay(parseISO(fcall.out[1])) = LocalDay(fcall.date) + 30

\* C5: calculateNextReviewDate(L, D) is the start of the local day of D plus
\* the interval of L in calendar days; every other time of the same local day
\* gives the same date.
C5_DueDateFromStartOfDay ==
    fcall.fn = "calculateNextReviewDate"
        => /\ parseISO(fcall.out[1])
                 = StartOfLocalDay(fcall.date) + IntervalDays[fcall.level + 1] * DayLen
           /\ \A d \in Instants :
                 LocalDay(d) = LocalDay(fcall.date)
                     => calculateNextReviewDate(fcall.level, d) = fcall.out[1]

C5_Witness ==
    /\ fcall.fn = "calculateNextReviewDate"
    /\ fcall.level = 3
    /\ tz # 0
    /\ fcall.date # StartOfLocalDay(fcall.date)
    /\ parseISO(fcall.out[1]) = StartOfLocalDay(fcall.date) + 7 * DayLen

\* C6: a review at one moment n: previousLevel is the level of the card,
\* newLevel follows from the confidence, the due date is counted from n, and
\* the returned card has that level and due date, lastReviewDate n and one
\* review more.
C6_ReviewAtOneMoment ==
    fcall.fn = "reviewCard"
        => \E n \in fcall.date..fcall.date2 :
              LET c == fcall.card[1]
                  r == fcall.out[1]
                  newLevel == IF fcall.confidence = "forgot" THEN 0
                              ELSE IF c.level < 5 THEN c.level + 1 ELSE 5
                  due == toISOString(StartOfLocalDay(n) + IntervalDays[newLevel + 1] * DayLen)
              IN  /\ r.previousLevel = c.level
                  /\ r.newLevel = newLevel
                  /\ r.nextReviewDate = due
                  /\ r.card.level = newLevel
                  /\ r.card.nextReviewDate = due
                  /\ r.card.lastReviewDate = toISOString(n)
                  /\ r.card.reviewCount = c.reviewCount + 1

\* C7: reviewCard carries id, question, answer and createdAt over to the
\* returned card, and the card passed in has the field values it had.
C7_ReviewFrame ==
    fcall.fn = "reviewCard"
        => LET c == fcall.card[1]
               r == fcall.out[1].card
           IN  /\ r.id = c.id
               /\ r.question = c.question
               /\ r.answer = c.answer
               /\ r.createdAt = c.createdAt
               /\ DOMAIN r = DOMAIN c
               /\ fcall.arg[1] = c

C7_Witness ==
    /\ fcall.fn = "reviewCard"
    /\ fcall.confidence = "know"
    /\ fcall.date2 > fcall.date
    /\ fcall.out[1].card.level # fcall.card[1].level
    /\ fcall.out[1].card.lastReviewDate # fcall.card[1].lastReviewDate
    /\ fcall.arg = fcall.card

\* A step of Spec that is a review of the tracked card.
ReviewStep == op'.name = "review" /\ tracked' # tracked

\* C8, as claimed: reviewCount is a natural number, no step of the lifecycle
\* (create, review, reset) lowers it, and a review adds exactly 1.
C8_ReviewCountNeverDecreases ==
    [][tracked # Null =>
          /\ tracked'[1].reviewCount \in Nat
          /\ tracked'[1].reviewCount >= tracked[1].reviewCount
          /\ ReviewStep => tracked'[1].reviewCount = tracked[1].reviewCount + 1]_vars

\* C8, amended: reviewCount is a natural number, only a deck reset lowers it,
\* to 0, and a review adds exactly 1.
C8_ReviewCountLoweredByResetOnly ==
    [][tracked # Null =>
          /\ tracked'[1].reviewCount \in Nat
          /\ tracked'[1].reviewCount < tracked[1].reviewCount
                => (op'.name = "reset" /\ tracked'[1].reviewCount = 0)
          /\ ReviewStep => tracked'[1].reviewCount = tracked[1].reviewCount + 1]_vars

C8_Witness ==
    /\ tracked # Null
    /\ op.name = "reset"
    /\ op.previousLevel = 3
    /\ tracked[1].reviewCount = 0

\* C9: isCardDue is true exactly when nextReviewDate is not after the start
\* of the local calendar day of the moment of the call.
C9_DueIffNotAfterStartOfDay ==
    fcall.fn = "isCardDue"
        => (fcall.out[1]
               <=> parseISO(fcall.card[1].nextReviewDate) <= StartOfLocalDay(fcall.date))

C9_Witness ==
    /\ fcall.fn = "isCardDue"
    /\ tz # 0
    /\ fcall.date # StartOfLocalDay(fcall.date)
    /\ parseISO(fcall.card[1].nextReviewDate) = StartOfLocalDay(fcall.date)
    /\ fcall.out = <<TRUE>>

\* C10: two calls of isCardDue on the same card at two moments of one local
\* calendar day give the same answer; so a card due at the first is due at
\* the later one.
C10_DueSameWithinDay ==
    (fcall.fn = "isCardDue" /\ fcall.prior # Null)
        => LET p == fcall.prior[1]
           IN  (p.card = fcall.card[1] /\ p.date <= fcall.date
                  /\ LocalDay(p.date) = LocalDay(fcall.date))
                  => fcall.out[1] = p.out

C10_Witness ==
    /\ fcall.fn = "isCardDue"
    /\ fcall.prior # Null
    /\ fcall.prior[1].card = fcall.card[1]
    /\ fcall.prior[1].date < fcall.date
    /\ LocalDay(fcall.prior[1].date) = LocalDay(fcall.date)
    /\ fcall.prior[1].out
    /\ fcall.out = <<TRUE>>

\* C11: getDueCards returns the cards of the deck that isCardDue accepts at
\* the clock reading taken for them, each once and in the order of the deck,
\* whatever their levels and due dates.
C11_DueCardsInDeckOrder ==
    fcall.fn = "getDueCards"
        => LET cs == fcall.card[1]
               out == fcall.out[1]
               due == {i \in 1..Len(cs) :
                          parseISO(cs[i].nextReviewDate) <= StartOfLocalDay(fcall.at[i])}
           IN  /\ Len(out) = Cardinality(due)
               /\ \A i \in due : out[Cardinality({j \in due : j <= i})] = cs[i]

C11_Witness ==
    /\ fcall.fn = "getDueCards"
    /\ Len(fcall.card[1]) = 3
    /\ fcall.out[1] = <<fcall.card[1][1], fcall.card[1][3]>>
    /\ fcall.card[1][1].level > fcall.card[1][3].level
    /\ fcall.card[1][2].level < fcall.card[1][3].level

\* C12: calculateDeckStats counts the cards of the deck in totalCards, the
\* cards getDueCards returns in cardsToReview and the cards at level 5 in
\* masteredCards; for the empty deck the four fields are 0.
C12_DeckCounts ==
    fcall.fn = "calculateDeckStats"
        => LET cs == fcall.card[1]
               out == fcall.out[1]
               due == {i \in 1..Len(cs) :
                          parseISO(cs[i].nextReviewDate) <= StartOfLocalDay(fcall.at[i])}
           IN  /\ out.totalCards = Len(cs)
               /\ out.cardsToReview = Len(getDueCards(cs, fcall.at))
               /\ out.cardsToReview = Cardinality(due)
               /\ out.masteredCards = Cardinality({i \in 1..Len(cs) : cs[i].level = 5})
               /\ cs = <<>> => out = [totalCards |-> 0, cardsToReview |-> 0,
                                      masteredCards |-> 0, averageLevel |-> 0]

C12_Witness ==
    /\ fcall.fn = "calculateDeckStats"
    /\ fcall.out[1].totalCards = 3
    /\ fcall.out[1].cardsToReview = 2
    /\ fcall.out[1].masteredCards = 1
    /\ \E i \in 1..3 : fcall.card[1][i].level = 2

\* The sum of the levels of the deck of the last call of calculateDeckStats.
C13_Sum == sumLevels(fcall.card[1])

\* C13: for a deck of n > 0 cards averageLevel, in tenths, is the integer
\* nearest to ten times the mean of the levels, a half going up, and lies in
\* 0..50; levels 1, 2 give 1.5 and levels 1, 1, 2 give 1.3.
C13_AverageRoundedHalfUp ==
    (fcall.fn = "calculateDeckStats" /\ fcall.card[1] # <<>>)
        => LET cs == fcall.card[1]
               n == Len(cs)
               t == fcall.out[1].averageLevel
               lv == [i \in 1..n |-> cs[i].level]
           IN  /\ 2 * t * n - n <= 20 * C13_Sum
               /\ 20 * C13_Sum < 2 * t * n + n
               /\ t \in 0..50
               /\ lv = <<1, 2>> => t = 15
               /\ lv = <<1, 1, 2>> => t = 13
               /\ lv = <<1, 0, 0, 0>> => t = 3

\* Ten times the mean lies halfway between two integers: 7 / 4 gives 1.8.
C13_Witness ==
    /\ fcall.fn = "calculateDeckStats"
    /\ Len(fcall.card[1]) = 4
    /\ C13_Sum = 7
    /\ fcall.out[1].averageLevel = 18

\* C14: a card as createNewCard returns it has level 0, nextReviewDate at the
\* start of the local day of its creation, no lastReviewDate and reviewCount
\* 0, and isCardDue accepts it at its creation and at every later moment.
C14_FreshCardDue ==
    (tracked # Null /\ op.name = "create")
        => LET c == tracked[1]
               t == parseISO(c.createdAt)
           IN  /\ c.level = 0
               /\ parseISO(c.nextReviewDate) = StartOfLocalDay(t)
               /\ c.lastReviewDate = Null
               /\ c.reviewCount = 0
               /\ t <= now
               /\ isCardDue(c, t)
               /\ isCardDue(c, now)
               /\ \A d \in t..Horizon : isCardDue(c, d)

C14_Witness ==
    /\ tracked # Null
    /\ op.name = "create"
    /\ tz # 0
    /\ parseISO(tracked[1].createdAt) # StartOfLocalDay(parseISO(tracked[1].createdAt))
    /\ LocalDay(now) > LocalDay(parseISO(tracked[1].createdAt))
    /\ isCardDue(tracked[1], now)

\* A step that is a call of resetDeck.
ResetDeckStep == now' = now /\ last'.op = "resetDeck"

\* The deck after the step is the deck before it, card for card, with level
\* 0, nextReviewDate at the start of the local day, no lastReviewDate and
\* reviewCount 0, and every card of it is due.
ResetDeckEffect ==
    /\ Len(cards') = Len(cards)
    /\ \A i \in 1..Len(cards) :
          /\ cards'[i].level = 0
          /\ cards'[i].nextReviewDate = toISOString(StartOfLocalDay(now))
          /\ cards'[i].lastReviewDate = Null
          /\ cards'[i].reviewCount = 0
          /\ cards'[i].id = cards[i].id
          /\ cards'[i].question = cards[i].question
          /\ cards'[i].answer = cards[i].answer
          /\ cards'[i].createdAt = cards[i].createdAt
          /\ parseISO(cards'[i].nextReviewDate) <= StartOfLocalDay(now')

\* C15, as claimed: every call of resetDeck resets every card of the deck,
\* keeps id, question, answer and createdAt, the number and the order of the
\* cards, and leaves every card due.
C15_ResetDeckResetsEveryCard == [][ResetDeckStep => ResetDeckEffect]_vars

\* A call of resetDeck whose write to localStorage is accepted has that
\* effect; a call whose write throws leaves the deck as it was.
ResetDeckEffectWhenStored ==
    [][ResetDeckStep =>
          IF last'.persisted THEN ResetDeckEffect ELSE cards' = cards]_vars

\* The days from the day of the k-th review of the scenario to the due date
\* it sets.
C16_Days == <<1, 3, 7, 14, 0>>

\* A card with level = reviewCount = k has had k reviews since it was made
\* (or reset), all of them "know".
\* C16: on such a card with k < 4 a review with "know", called at now, gives
\* level k + 1, reviewCount k + 1 and a due date at the start of the day 1, 3,
\* 7, 14 days after the day of now; with k = 4 a review with "forgot" gives
\* level 0, reviewCount 5 and the start of the day of now as due date.
C16_RoundTripScenario ==
    [][(/\ tracked # Null
        /\ ReviewStep
        /\ tracked[1].level = tracked[1].reviewCount
        /\ \/ tracked[1].level < 4 /\ op'.confidence = "know"
           \/ tracked[1].level = 4 /\ op'.confidence = "forgot")
          => LET k == tracked[1].reviewCount + 1
                 c == tracked'[1]
             IN  /\ c.level = (IF k = 5 THEN 0 ELSE k)
                 /\ c.reviewCount = k
                 /\ parseISO(c.nextReviewDate)
                       = StartOfLocalDay(now) + C16_Days[k] * DayLen]_vars

\* The fifth review of the scenario has been made, on a later day than the
\* card was created.
C16_Witness ==
    /\ tracked # Null
    /\ op.name = "review"
    /\ op.confidence = "forgot"
    /\ op.previousLevel = 4
    /\ tracked[1].reviewCount = 5
    /\ tracked[1].level = 0
    /\ LocalDay(parseISO(tracked[1].nextReviewDate))
          > LocalDay(parseISO(tracked[1].createdAt))

\* C17: the card a review with "forgot" returns has its nextReviewDate at the
\* start of the local day of the call and is due at every moment of the rest
\* of that day; the card a review with "know" returns is due at none.
C17_DueAgainSameDayOnlyAfterForgot ==
    fcall.fn = "reviewCard"
        => LET r == fcall.out[1].card
               rest == {t \in Instants :
                          t >= fcall.date /\ LocalDay(t) = LocalDay(fcall.date)}
           IN  IF fcall.confidence = "forgot"
               THEN /\ parseISO(r.nextReviewDate) = StartOfLocalDay(fcall.date)
                    /\ \A t \in rest : isCardDue(r, t)
               ELSE \A t \in rest : ~isCardDue(r, t)

C17_Witness ==
    /\ fcall.fn = "reviewCard"
    /\ fcall.confidence = "forgot"
    /\ fcall.card[1].level > 0
    /\ fcall.date # StartOfLocalDay(fcall.date)
    /\ now > fcall.date
    /\ LocalDay(now) = LocalDay(fcall.date)
    /\ isCardDue(fcall.out[1].card, now)

\* C18: a call of calculateNewLevel with a level outside 0..5 or a confidence
\* other than "forgot" and "know" returns no level: it ends in an error.
C18_InvalidInputFailsFast ==
    (/\ fcall.fn = "calculateNewLevel"
     /\ fcall.level \notin 0..5 \/ fcall.confidence \notin {"forgot", "know"})
        => fcall.out = Null

\* C19: through createNewCard, reviewCard and the reset of resetDeck the
\* nextReviewDate of the card is set, and the instant it names is the start
\* of a local calendar day.
C19_NextReviewDateAtStartOfDay ==
    tracked # Null
        => /\ tracked[1].nextReviewDate # Null
           /\ parseISO(tracked[1].nextReviewDate)
                 = StartOfLocalDay(parseISO(tracked[1].nextReviewDate))

C19_Witness ==
    /\ tracked # Null
    /\ tz # 0
    /\ op.name = "review"
    /\ op.confidence = "know"
    /\ tracked[1].reviewCount > 1
    /\ parseISO(tracked[1].lastReviewDate)
          # StartOfLocalDay(parseISO(tracked[1].lastReviewDate))
    /\ tracked[1].nextReviewDate[2] # 0

\* C20: when the initialization has come to its end and fetchFlashcards had
\* no answer from the network (the client was not online, or the request
\* failed), isLoading is false and the cards state holds at least one card.
C20_FallbackAfterFailedFetch ==
    (hook.pc = "done" /\ hook.fetched[1].network \in {"offline", "failed"})
        => /\ ~hook.isLoading
           /\ cards # <<>>

\* A step that is a call of addCard or of reviewFlashCard.
WriteStep ==
    /\ last'.calls = last.calls + 1
    /\ last'.op \in {"addCard", "reviewFlashCard"}

\* Every card the collection cs holds, but for the card the call is about,
\* is held by the collection ds as it is in cs.
KeepsOtherCards(cs, ds, cardId) ==
    \A i \in 1..Len(cs) :
        cs[i].id # cardId => \E j \in 1..Len(ds) : ds[j] = cs[i]

\* C21: a call of addCard or reviewFlashCard keeps what the calls before it
\* have done, also when no render has come between: every other card of the
\* cards state is in the cards state after the call as it was, and in the
\* stored collection when the call has written it.
C21_NoLostUpdate ==
    [][WriteStep =>
          /\ KeepsOtherCards(cards, cards', last'.cardId)
          /\ (last'.found /\ last'.persisted)
                => KeepsOtherCards(cards, JSONparse(stored'[1]), last'.cardId)]_vars

\* The same of the calls made by the callbacks of a render that has seen the
\* cards state as it is.
NoLostUpdateAfterRender ==
    [][(WriteStep /\ rendered = cards) =>
          /\ KeepsOtherCards(cards, cards', last'.cardId)
          /\ (last'.found /\ last'.persisted)
                => KeepsOtherCards(cards, JSONparse(stored'[1]), last'.cardId)]_vars

\* The cards state updateCardsFromAPI finds when it comes back from the await
\* of fetchFlashcards in this step: the cards state, or the stored cards that
\* initializeCards has just given to setCards.
CardsBeforeUpdate ==
    IF hook.pc = "mount" /\ stored # Null THEN JSONparse(stored[1]) ELSE cards

\* A step in which updateCardsFromAPI gets the answer of fetchFlashcards and
\* runs to its end.
UpdateStep == hook.pc # "done" /\ hook'.pc = "done"

\* C22: updateCardsFromAPI leaves a cards state that is not empty as it is,
\* whatever fetchFlashcards answers.
C22_KeepsExistingCards ==
    [][(UpdateStep /\ CardsBeforeUpdate # <<>>) => cards' = CardsBeforeUpdate]_vars

\* The same for the answers of fetchFlashcards that hold a card or say that
\* the client is offline.
KeepsExistingCardsUnlessEmptyOnline ==
    [][(/\ UpdateStep
        /\ CardsBeforeUpdate # <<>>
        /\ hook'.fetched[1].count > 0 \/ hook'.fetched[1].isOffline)
          => cards' = CardsBeforeUpdate]_vars

\* C23: when updateCardsFromAPI finds no card in the cards state and
\* fetchFlashcards has answered with at least one card, the answer becomes
\* the cards state and is written to localStorage under the cards key: the
\* stored collection is the cards state when the call ends.
C23_FetchedCardsStored ==
    [][(UpdateStep /\ CardsBeforeUpdate = <<>> /\ hook'.fetched[1].count > 0)
          => /\ Len(cards') = hook'.fetched[1].count
             /\ stored' # Null
             /\ JSONparse(stored'[1]) = cards']_vars

\* The part of it that concerns the cards state.
FetchedCardsShown ==
    [][(UpdateStep /\ CardsBeforeUpdate = <<>> /\ hook'.fetched[1].count > 0)
          => /\ Len(cards') = hook'.fetched[1].count
             /\ stored' = stored]_vars

\* A step that is a call of reviewFlashCard.
ReviewCallStep == last'.calls = last.calls + 1 /\ last'.op = "reviewFlashCard"

\* What the call does with the collection: with an id no card of it has,
\* null is returned and collection and store stay as they are; with an id a
\* card has, that card is replaced by its reviewed successor where it stands
\* and every other card stays where and as it is.
ReviewByIdEffect ==
    IF \A i \in 1..Len(cards) : cards[i].id # last'.cardId
    THEN /\ ~last'.found
         /\ cards' = cards
         /\ stored' = stored
    ELSE /\ last'.found
         /\ Len(cards') = Len(cards)
         /\ \A i \in 1..Len(cards) :
               IF cards[i].id = last'.cardId
               THEN /\ cards'[i].id = cards[i].id
                    /\ cards'[i].reviewCount = cards[i].reviewCount + 1
                    /\ cards'[i].lastReviewDate # Null
               ELSE cards'[i] = cards[i]

\* C24: every call of reviewFlashCard has that effect on the cards state.
C24_ReviewById == [][ReviewCallStep => ReviewByIdEffect]_vars

\* The same of the calls made by the callbacks of a render that has seen the
\* cards state as it is, the write to localStorage being accepted.
ReviewByIdAfterRender ==
    [][(ReviewCallStep /\ rendered = cards /\ (last'.found => last'.persisted))
          => ReviewByIdEffect]_vars

\* C25: an answer of fetchFlashcards with fromCache true is given only when
\* the stored expiry is later than the clock at the read of the cache, and a
\* read that finds the expiry passed, reached or missing gives no cached
\* cards and removes both cache entries.
C25_NoExpiredCache ==
    [][UpdateStep =>
          LET f == hook'.fetched[1]
          IN  /\ f.fromCache
                    => /\ api.expiry # Null
                       /\ api.expiry[1] > now
                       /\ api.cache # Null
                       /\ f.count = Len(api.cache[1])
              /\ (f.network # "ok" /\ (api.expiry = Null \/ api.expiry[1] <= now))
                    => /\ ~f.fromCache
                       /\ api'.cache = Null
                       /\ api'.expiry = Null]_vars

\* The cache has been read one tick before its expiry, and answered.
C25_Witness ==
    /\ hook.pc = "done"
    /\ hook.fetched[1].network = "failed"
    /\ hook.fetched[1].fromCache
    /\ hook.fetched[1].count > 0
    /\ now > Epoch
    /\ api.expiry = <<now + 1>>
    /\ cards # <<>>


\* C26: at most one daily-reminder timer is pending at any time, through
\* every sequence of scheduleDailyReminder calls, timer firings with their
\* reschedule, cancelReminders calls and permission answers arriving for
\* calls that wait at the same time; and the pending timer is the one the
\* service holds in reminderTimeout.
C26_AtMostOneTimer ==
    /\ Cardinality(notif.timers) <= 1
    /\ \A t \in notif.timers : notif.reminderTimeout = <<t.id>>

\* Two calls waited for the permission answer at the same time, both have
\* set their timer, and one timer is pending.
C26_Witness ==
    /\ notif.nextTimer = 3
    /\ notif.fired = 0
    /\ notif.invocations = 2
    /\ notif.awaiting = <<>>
    /\ Cardinality(notif.timers) = 1

\* C27: once cancelReminders has returned, and until scheduleDailyReminder
\* is invoked again, no reminder timer is pending, no reminder settings are
\* stored and no reminder is shown, also when a call of scheduleDailyReminder
\* was waiting for the permission answer at the moment of the cancel.
C27_CancelCancelsAll ==
    [][/\ notif'.cancelled => (notif'.timers = {} /\ notif'.reminder = Null)
       /\ (notif.cancelled /\ notif'.cancelled) => notif'.shown = notif.shown]_vars

\* The part of it that the code keeps: when no call waits for the permission
\* answer at the moment of the cancel.
CancelCancelsAllUnlessAwaiting ==
    [][/\ (notif'.cancelled /\ ~notif'.overtaken)
             => (notif'.timers = {} /\ notif'.reminder = Null)
       /\ (notif.cancelled /\ notif'.cancelled /\ ~notif.overtaken)
             => notif'.shown = notif.shown]_vars

\* A step in which scheduleDailyReminder, with permission granted, has set
\* its timer: the call that read the clock at now.
TimerSetStep == notif'.nextTimer = notif.nextTimer + 1

TimerSet == CHOOSE t \in notif'.timers : t.id = notif.nextTimer

\* The time of day of d in local time, in ticks after midnight.
LocalTime(d) == (d + tz) % DayLen

C29_LastReviewDate ==
    [][tracked' # Null =>
          LET c == tracked'[1]
          IN  /\ (c.lastReviewDate = Null) <=> (c.reviewCount = 0)
              /\ c.lastReviewDate # Null
                    => /\ parseISO(c.lastReviewDate) >= parseISO(c.createdAt)
                       /\ parseISO(c.lastReviewDate) <= now'
              /\ ReviewStep
                    => /\ c.lastReviewDate # Null
                       /\ parseISO(c.lastReviewDate) \in now..now'
              /\ (tracked # Null /\ ~ReviewStep
                    /\ c.lastReviewDate # tracked[1].lastReviewDate)
                    => /\ op'.name = "reset"
                       /\ c.lastReviewDate = Null]_vars

\* The card has been reviewed twice, the second time after its creation, and
\* time has passed since.
C29_Witness ==
    /\ tracked # Null
    /\ op.name = "review"
    /\ tracked[1].reviewCount = 2
    /\ tracked[1].lastReviewDate # Null
    /\ parseISO(tracked[1].lastReviewDate) > parseISO(tracked[1].createdAt)
    /\ now > parseISO(tracked[1].lastReviewDate)

\* C30: whenever Home shows the progress indicator (some card is due and the
\* session is not complete), the position shown, reviewedCardIds.size + 1, is
\* at most the total shown, dueCards.length, and there is a current card.
C30_ProgressWithinTotal ==
    ShowsProgress
        => /\ Cardinality(home.reviewedCardIds) + 1 <= Len(home.dueCards)
           /\ sessionCards # <<>>

\* The part of it that the code keeps: there is a current card, and the
\* position is within the total as long as every review so far in the
\* session has left its card due, which a 'forgot' review does.
CurrentCardWhenProgressShown ==
    ShowsProgress
        => /\ sessionCards # <<>>
           /\ (\A id \in home.reviewedCardIds :
                  \E i \in 1..Len(home.dueCards) : home.dueCards[i].id = id)
                 => Cardinality(home.reviewedCardIds) + 1 <= Len(home.dueCards)
====
